---- MODULE Spec2Model ----
(***************************************************************************)
(* Model of saltext-sap_likey: the state module (license_present,          *)
(* license_absent) driving the saplikey command line tool through the      *)
(* execution module (info, show, install, delete, temp, read_lic_file),    *)
(* and the text parsers of the execution module.                           *)
(***************************************************************************)
EXTENDS Integers, Sequences, FiniteSets, TLC

VARIABLES
    sysLics,     \* licenses held by the SAP system, in the order -show lists them
    fileOwner,   \* owner of the license file (file.get_user)
    fileLics,    \* records read_lic_file yields for the license file
    decl,        \* the state declaration being applied: function and arguments
    tool,        \* which read-only tool call exits non-zero: "ok", "show_fails", "info_fails"
    runs,        \* number of state-function invocations so far
    last,        \* the last invocation: function, arguments, observed list, calls, ret
    lines,       \* the lines of the text given to a parser (parser specifications)
    blocks,      \* the license blocks the stdout was assembled from (parser specification)
    parsed,      \* what the parser produced for lines
    facade       \* one call of an execution-module function around the tool

vars == <<sysLics, fileOwner, fileLics, decl, tool, runs, last, lines, blocks, parsed, facade>>

engineVars == <<sysLics, fileOwner, fileLics, decl, tool, runs, last, facade>>
parserVars == <<lines, blocks, parsed>>

(***************************************************************************)
(* Bounds of the model                                                     *)
(***************************************************************************)
MaxLics == 2         \* licenses installed in the system at the start
MaxFileLics == 1     \* licenses in the license file
MaxRuns == 2         \* invocations of the state functions in one behaviour
MaxLines == 3        \* lines of an arbitrary stdout given to the parsing loop of show
MaxBlocks == 2       \* license blocks of a well-formed stdout
MaxBlockLines == 2   \* key: value lines of one license block

(***************************************************************************)
(* Values                                                                  *)
(***************************************************************************)
Sid == "S4H"                       \* name: the SID the states are applied to
OtherSid == "M70"
Sidadm == "s4hadm"                 \* f"{name.lower()}adm"
Filename == "/tmp/S4H.txt"
NoFilename == "None"               \* filename=None
OwnHwKey == "HW1"                  \* info["hardware_key"]
OtherHwKey == "HW2"
InfoProducts == "NetWeaver_HDB"    \* info["software_products"]
Wildcard == "*"

Systems == {Sid, OtherSid}
HwKeys == {OwnHwKey, OtherHwKey}
Owners == {Sidadm, "root"}
ToolStates == {"ok", "show_fails", "info_fails"}

\* The licenses the system may hold at the start: the system's own, for its own
\* and for another hardware key, valid, expired and Maintenance, and valid
\* licenses of another system.  A Maintenance license is skipped before its
\* validity is read, so one validity stands for both.
OwnKinds ==
    {<<"NetWeaver_HDB", "valid">>, <<"NetWeaver_HDB", "expired">>,
     <<"Maintenance_HDB", "valid">>}

ShownLicense(s, h, product, validity) ==
    [system |-> s, hardware_key |-> h, software_product |-> product,
     validity |-> validity, type_of_license_key |-> "permanent"]

\* A license as -show reports it and show() parses it.
SysLicense ==
    {ShownLicense(Sid, h, k[1], k[2]) : h \in HwKeys, k \in OwnKinds}
    \cup {ShownLicense(OtherSid, h, "NetWeaver_HDB", "valid") : h \in HwKeys}

\* A license as read_lic_file() yields it.
FileLicense ==
    {[system |-> Sid, hardware_key |-> OwnHwKey, software_product |-> "NetWeaver_HDB"],
     [system |-> Sid, hardware_key |-> OtherHwKey, software_product |-> "NetWeaver_HDB"],
     [system |-> OtherSid, hardware_key |-> OwnHwKey, software_product |-> "NetWeaver_HDB"]}

Key(lic) == <<lic.system, lic.hardware_key, lic.software_product>>

\* the sequences over S of length at most n
SeqsUpTo(S, n) == UNION {[1..m -> S] : m \in 0..n}

DistinctKeys(s) == \A i, j \in 1..Len(s) : Key(s[i]) = Key(s[j]) => i = j

(***************************************************************************)
(* The saplikey tool behind the execution module.  delete removes the      *)
(* licenses of owner `name` whose hardware key and product match the       *)
(* patterns, install adds the licenses of the file, temp adds a temporary  *)
(* license of the system for the product.                                  *)
(***************************************************************************)
Glob(pattern, value) == pattern = Wildcard \/ pattern = value

InDeleteScope(lic, name, hwkey, product) ==
    /\ lic.system = name
    /\ Glob(hwkey, lic.hardware_key)
    /\ Glob(product, lic.software_product)

ToolDelete(sys, name, hwkey, product) ==
    SelectSeq(sys, LAMBDA lic : ~InDeleteScope(lic, name, hwkey, product))

Installed(flic) ==
    [system |-> flic.system, hardware_key |-> flic.hardware_key,
     software_product |-> flic.software_product,
     validity |-> "valid", type_of_license_key |-> "permanent"]

Put(sys, lic) ==
    IF \E i \in 1..Len(sys) : Key(sys[i]) = Key(lic)
    THEN [i \in 1..Len(sys) |-> IF Key(sys[i]) = Key(lic) THEN lic ELSE sys[i]]
    ELSE Append(sys, lic)

RECURSIVE ToolInstall(_, _)
ToolInstall(sys, file) ==
    IF file = <<>> THEN sys
    ELSE ToolInstall(Put(sys, Installed(Head(file))), Tail(file))

ToolTemp(sys, sid, product) ==
    Put(sys, [system |-> sid, hardware_key |-> OwnHwKey, software_product |-> product,
              validity |-> "valid", type_of_license_key |-> "temporary"])

\* show(): False on a non-zero exit code, else the parsed list.
show(sys, toolState) ==
    IF toolState = "show_fails" THEN [ok |-> FALSE, lics |-> <<>>]
    ELSE [ok |-> TRUE, lics |-> sys]

\* info(): False on a non-zero exit code, else the parsed mapping.
info(toolState) ==
    IF toolState = "info_fails"
    THEN [ok |-> FALSE, hardware_key |-> "", software_products |-> ""]
    ELSE [ok |-> TRUE, hardware_key |-> OwnHwKey, software_products |-> InfoProducts]

(***************************************************************************)
(* ret and the bookkeeping of one invocation                               *)
(***************************************************************************)
EmptyDict == [k \in {} |-> <<>>]

\* ret["changes"].get(k)
Get(changes, k) == IF k \in DOMAIN changes THEN changes[k] ELSE <<>>

NewRet(name) ==
    [name |-> name, changes |-> [old |-> <<>>, new |-> <<>>],
     comment |-> <<"">>, result |-> "True"]

\* env: the world the invocation runs in; failAt is the number of the
\* delete/install/temp call that exits non-zero (0: none does).
Begin(env, name) ==
    [sys |-> env.sys, owner |-> env.owner, calls |-> <<>>, n |-> 0,
     ret |-> NewRet(name), pc |-> "running"]

AppendOld(st, msg) == [st EXCEPT !.ret.changes.old = Append(@, msg)]
AppendNew(st, msg) == [st EXCEPT !.ret.changes.new = Append(@, msg)]

\* mutant: the failure is noted and the function goes on
ReturnFailure_GoesOn(st, comment) ==
    [st EXCEPT !.ret.comment = comment, !.ret.result = "False"]

\* ret["comment"] = ...; ret["result"] = False; return ret
ReturnFailure(st, comment) ==
    [st EXCEPT !.ret.comment = comment, !.ret.result = "False", !.pc = "returned"]

\* an unhandled exception leaves the function
Raise(st) == [st EXCEPT !.pc = "raised"]

\* One call of delete/install/temp of the execution module: True and the
\* tool's effect on exit code 0, False and no effect otherwise.
CallTool(st, env, op, args, effect) ==
    LET k  == st.n + 1
        ok == k # env.failAt
    IN  [st EXCEPT !.n = k,
                   !.calls = Append(@, [op |-> op, args |-> args, ok |-> ok]),
                   !.sys = IF ok THEN effect ELSE @]

Success(st) == st.calls[Len(st.calls)].ok

MsgLicense(lic) ==
    <<"SAP system license", lic.system, lic.hardware_key, lic.software_product>>

MsgWould(lic, what) == Append(MsgLicense(lic), what)

MsgLicenses(lics) == [i \in 1..Len(lics) |-> MsgLicense(lics[i])]
MsgWouldAll(lics, what) == [i \in 1..Len(lics) |-> MsgWould(lics[i], what)]

AppendOldAll(st, msgs) == [st EXCEPT !.ret.changes.old = @ \o msgs]
AppendNewAll(st, msgs) == [st EXCEPT !.ret.changes.new = @ \o msgs]

\* mutant: test mode always reports pending changes
ResultFor_TestMeansNone(test, changes) == IF ~test THEN "True" ELSE "None"

\* The last lines of both state functions.
ResultFor(test, changes) ==
    IF ~test \/ DOMAIN changes = {} THEN "True" ELSE "None"

\* mutant: the comment is kept when nothing changed
Finish_KeepsComment(st, test) ==
    LET cleared == Get(st.ret.changes, "new") = <<>> /\ Get(st.ret.changes, "old") = <<>>
        changes == IF cleared THEN EmptyDict ELSE st.ret.changes
    IN  [st EXCEPT !.ret.changes = changes,
                   !.ret.result = ResultFor(test, changes),
                   !.pc = "returned"]

Finish(st, test) ==
    LET cleared == Get(st.ret.changes, "new") = <<>> /\ Get(st.ret.changes, "old") = <<>>
        changes == IF cleared THEN EmptyDict ELSE st.ret.changes
        comment == IF cleared THEN <<"No changes required">> ELSE st.ret.comment
    IN  [st EXCEPT !.ret.changes = changes,
                   !.ret.comment = comment,
                   !.ret.result = ResultFor(test, changes),
                   !.pc = "returned"]

(***************************************************************************)
(* license_present                                                         *)
(***************************************************************************)
\* arguments of the delete calls
OtherSidDeleteArgs(lic, name) == <<lic.system, Wildcard, Wildcard>>
OtherHwkeyDeleteArgs(lic, name) == <<lic.system, lic.hardware_key, Wildcard>>
AllDeleteArgs(name) == <<name, Wildcard, Wildcard>>

Delete(st, env, args) ==
    CallTool(st, env, "delete", args, ToolDelete(st.sys, args[1], args[2], args[3]))

\* if remove_other_sid: for lic in licenses_system: if lic["system"] != name: ...
RECURSIVE RemoveOtherSid(_, _, _, _, _)
RemoveOtherSid(st, env, name, observed, i) ==
    IF st.pc # "running" \/ i > Len(observed) THEN st
    ELSE LET lic == observed[i]
         IN  IF lic.system # name
             THEN IF env.test
                  THEN RemoveOtherSid(AppendOld(st, MsgWould(lic, "would be removed")),
                                      env, name, observed, i + 1)
                  ELSE LET c == Delete(st, env, OtherSidDeleteArgs(lic, name))
                       IN  IF Success(c)
                           THEN RemoveOtherSid(AppendOld(c, MsgLicense(lic)),
                                               env, name, observed, i + 1)
                           ELSE ReturnFailure(c,
                                    <<"Could not remove license for SAP system license">>
                                    \o Key(lic))
             ELSE RemoveOtherSid(st, env, name, observed, i + 1)

\* if remove_other_hwkey: for lic in licenses_system:
\*     if lic["hardware_key"] != info["hardware_key"]: ...
RECURSIVE RemoveOtherHwkey(_, _, _, _, _, _)
RemoveOtherHwkey(st, env, name, hardware_key, observed, i) ==
    IF st.pc # "running" \/ i > Len(observed) THEN st
    ELSE LET lic == observed[i]
         IN  IF lic.hardware_key # hardware_key
             THEN IF env.test
                  THEN RemoveOtherHwkey(AppendOld(st, MsgWould(lic, "would be removed")),
                                        env, name, hardware_key, observed, i + 1)
                  ELSE LET c == Delete(st, env, OtherHwkeyDeleteArgs(lic, name))
                       IN  IF Success(c)
                           THEN RemoveOtherHwkey(AppendOld(c, MsgLicense(lic)),
                                                 env, name, hardware_key, observed, i + 1)
                           ELSE ReturnFailure(c,
                                    <<"Could not remove license for system">> \o Key(lic))
             ELSE RemoveOtherHwkey(st, env, name, hardware_key, observed, i + 1)

SystemOnlyAttributes == {"last_successful_check", "validity", "type_of_license_key"}

\* del lic_sys["last_successful_check"], ["validity"], ["type_of_license_key"]
StripSystemOnly(lic_sys) ==
    [k \in DOMAIN lic_sys \ SystemOnlyAttributes |-> lic_sys[k]]

\* all_valid: every license of the file equals a stripped license of the system
AllValid(licenses_file, observed) ==
    /\ Len(licenses_file) > 0
    /\ \A j \in 1..Len(licenses_file) :
           \E i \in 1..Len(observed) : licenses_file[j] = StripSystemOnly(observed[i])

UserInfo == [uid |-> "uid_s4hadm", gid |-> "gid_sapsys"]   \* user.info(sidadm)

\* mutant: the owner is set whoever owns the file
EnsureOwner_Always(st, env, filename) ==
    IF env.test
    THEN AppendNew(st, <<"Would change to owner of", filename, UserInfo.uid, UserInfo.gid>>)
    ELSE [st EXCEPT !.calls = Append(@, [op |-> "chown",
                                         args |-> <<UserInfo.uid, UserInfo.gid, filename>>,
                                         ok |-> TRUE]),
                    !.owner = Sidadm]

\* checking if the <sid>adm user can read the license file
EnsureOwner(st, env, filename) ==
    IF st.owner # Sidadm
    THEN IF env.test
         THEN AppendNew(st, <<"Would change to owner of", filename, UserInfo.uid, UserInfo.gid>>)
         ELSE [st EXCEPT !.calls = Append(@, [op |-> "chown",
                                              args |-> <<UserInfo.uid, UserInfo.gid, filename>>,
                                              ok |-> TRUE]),
                         !.owner = Sidadm]
    ELSE st

\* mutant: the install is issued in test mode too
InstallFile_IgnoresTest(st, env, name, filename) ==
    LET c == CallTool(st, env, "install", <<name, filename>>, ToolInstall(st.sys, env.file))
    IN  IF Success(c)
        THEN AppendNewAll(c, MsgLicenses(env.file))
        ELSE ReturnFailure(c, <<"Could not install licenses for system", name>>)

InstallFile(st, env, name, filename) ==
    IF env.test
    THEN AppendNewAll(st, MsgWouldAll(env.file, "would be installed"))
    ELSE LET c == CallTool(st, env, "install", <<name, filename>>,
                           ToolInstall(st.sys, env.file))
         IN  IF Success(c)
             THEN AppendNewAll(c, MsgLicenses(env.file))
             ELSE ReturnFailure(c, <<"Could not install licenses for system", name>>)

\* if not all_valid: remove all licenses of the system, then install the file
ReplaceAll(st, env, name, filename, shown) ==
    LET removed ==
            IF env.test
            THEN IF ~shown.ok THEN Raise(st)
                 ELSE AppendOldAll(st, MsgWouldAll(shown.lics, "would be removed"))
            ELSE LET c == Delete(st, env, AllDeleteArgs(name))
                 IN  IF Success(c)
                     THEN IF ~shown.ok THEN Raise(c)
                          ELSE AppendOldAll(c, MsgLicenses(shown.lics))
                     ELSE ReturnFailure(c, <<"Could not remove license for system", name>>)
        owned == IF removed.pc # "running" THEN removed
                 ELSE EnsureOwner(removed, env, filename)
        installed == IF owned.pc # "running" THEN owned
                     ELSE InstallFile(owned, env, name, filename)
    IN  IF installed.pc # "running" THEN installed
        ELSE [installed EXCEPT !.ret.comment = <<"Installed licenses">>]

\* if filename: ...
PresentFromFile(st, env, name, filename, shown) ==
    IF Len(env.file) > 0 /\ ~shown.ok THEN Raise(st)
    ELSE IF AllValid(env.file, shown.lics) THEN st
    ELSE ReplaceAll(st, env, name, filename, shown)

MaintenanceProducts == {"Maintenance_HDB"}   \* software_product.startswith("Maintenance_")

\* mutant: only licenses of the system itself count
ValidLicense_OwnOnly(observed) ==
    \E i \in 1..Len(observed) :
        /\ observed[i].system = Sid
        /\ observed[i].software_product \notin MaintenanceProducts
        /\ observed[i].validity = "valid"

ValidLicense(observed) ==
    \E i \in 1..Len(observed) :
        /\ observed[i].software_product \notin MaintenanceProducts
        /\ observed[i].validity = "valid"

AddTemporary(st, env, name, inf) ==
    IF ~inf.ok THEN Raise(st)
    ELSE IF env.test
    THEN AppendNew(st, <<"SAP system", name, "temporary license for",
                         inf.software_products, "would be added">>)
    ELSE LET c == CallTool(st, env, "temp", <<name, inf.software_products>>,
                           ToolTemp(st.sys, name, inf.software_products))
         IN  IF Success(c)
             THEN AppendNew(c, <<"SAP system", name, "temporary license for",
                                 inf.software_products>>)
             ELSE ReturnFailure(c, <<"Could not add temporay license for system", name,
                                     "for", inf.software_products>>)

\* mutant: the delete is issued although no license is installed
RemoveForTemporary_Always(st, env, name, observed) ==
    IF env.test
    THEN AppendOld(st, <<"SAP system", name, "license would be deleted">>)
    ELSE LET c == Delete(st, env, AllDeleteArgs(name))
         IN  IF Success(c)
             THEN AppendOld(c, <<"SAP system", name, "license">>)
             ELSE ReturnFailure(c, <<"Could not remove license for system", name>>)

\* if licenses_system: remove all licenses of the system
RemoveForTemporary(st, env, name, observed) ==
    IF Len(observed) = 0 THEN st
    ELSE IF env.test
    THEN AppendOld(st, <<"SAP system", name, "license would be deleted">>)
    ELSE LET c == Delete(st, env, AllDeleteArgs(name))
         IN  IF Success(c)
             THEN AppendOld(c, <<"SAP system", name, "license">>)
             ELSE ReturnFailure(c, <<"Could not remove license for system", name>>)

\* else: no license file defined
PresentWithoutFile(st, env, name, shown, inf) ==
    IF ~shown.ok THEN Raise(st)
    ELSE IF ValidLicense(shown.lics)
    THEN [st EXCEPT !.ret.comment = <<"System", name, "already has a valid license">>]
    ELSE LET removed == RemoveForTemporary(st, env, name, shown.lics)
         IN  IF removed.pc # "running" THEN removed
             ELSE AddTemporary(removed, env, name, inf)

\* The whole of license_present(name, filename, remove_other_sid, remove_other_hwkey).
LicensePresent(env, name, filename, remove_other_sid, remove_other_hwkey) ==
    LET inf   == info(env.tool)
        shown == show(env.sys, env.tool)
        st0   == Begin(env, name)
        st1   == IF ~remove_other_sid THEN st0
                 ELSE IF ~shown.ok THEN Raise(st0)
                 ELSE RemoveOtherSid(st0, env, name, shown.lics, 1)
        st2   == IF st1.pc # "running" \/ ~remove_other_hwkey THEN st1
                 ELSE IF ~inf.ok \/ ~shown.ok THEN Raise(st1)
                 ELSE RemoveOtherHwkey(st1, env, name, inf.hardware_key, shown.lics, 1)
        st3   == IF st2.pc # "running" THEN st2
                 ELSE IF filename # NoFilename
                 THEN PresentFromFile(st2, env, name, filename, shown)
                 ELSE PresentWithoutFile(st2, env, name, shown, inf)
    IN  IF st3.pc # "running" THEN st3 ELSE Finish(st3, env.test)

(***************************************************************************)
(* license_absent                                                          *)
(***************************************************************************)
AbsentDeleteArgs(lic_sys, name) ==
    <<name, lic_sys.hardware_key, lic_sys.software_product>>

\* mutant: every license matches
AbsentMatches_Always(lic_sys, name, remove_all) == TRUE

\* if remove_all or lic_sys["system"] == name
AbsentMatches(lic_sys, name, remove_all) == remove_all \/ lic_sys.system = name

RECURSIVE RemoveMatching(_, _, _, _, _, _)
RemoveMatching(st, env, name, remove_all, observed, i) ==
    IF st.pc # "running" \/ i > Len(observed) THEN st
    ELSE LET lic_sys == observed[i]
         IN  IF AbsentMatches(lic_sys, name, remove_all)
             THEN IF env.test
                  THEN RemoveMatching(AppendOld(st, MsgWould(lic_sys, "would be removed")),
                                      env, name, remove_all, observed, i + 1)
                  ELSE LET c == Delete(st, env, AbsentDeleteArgs(lic_sys, name))
                       IN  IF Success(c)
                           THEN RemoveMatching(AppendOld(c, MsgLicense(lic_sys)),
                                               env, name, remove_all, observed, i + 1)
                           ELSE ReturnFailure(c, <<"Could not remove license for">>
                                                  \o Key(lic_sys))
             ELSE RemoveMatching(st, env, name, remove_all, observed, i + 1)

\* The whole of license_absent(name, remove_all).
LicenseAbsent(env, name, remove_all) ==
    LET shown == show(env.sys, env.tool)
        st0   == Begin(env, name)
        st1   == IF ~shown.ok THEN Raise(st0)
                 ELSE RemoveMatching(st0, env, name, remove_all, shown.lics, 1)
    IN  IF st1.pc # "running" THEN st1 ELSE Finish(st1, env.test)

(***************************************************************************)
(* Strings are sequences of characters.  The string methods the parsers    *)
(* use: str.endswith, "in", str.split(sep, 1), str.strip, str.lower,       *)
(* str.replace and re.sub("_+", "_", .).                                   *)
(***************************************************************************)
UpperChars == <<"A", "B", "C", "D", "E", "F", "G", "H", "I", "J", "K", "L", "M",
                "N", "O", "P", "Q", "R", "S", "T", "U", "V", "W", "X", "Y", "Z">>
LowerChars == <<"a", "b", "c", "d", "e", "f", "g", "h", "i", "j", "k", "l", "m",
                "n", "o", "p", "q", "r", "s", "t", "u", "v", "w", "x", "y", "z">>
Whitespace == {" ", "\t", "\n", "\r"}

LowerChar(c) ==
    IF \E i \in 1..Len(UpperChars) : UpperChars[i] = c
    THEN LowerChars[CHOOSE i \in 1..Len(UpperChars) : UpperChars[i] = c]
    ELSE c

Lower(str) == [i \in 1..Len(str) |-> LowerChar(str[i])]

Replace(str, from, to) == [i \in 1..Len(str) |-> IF str[i] = from THEN to ELSE str[i]]

EndsWith(str, suffix) ==
    /\ Len(str) >= Len(suffix)
    /\ SubSeq(str, Len(str) - Len(suffix) + 1, Len(str)) = suffix

Contains(str, c) == \E i \in 1..Len(str) : str[i] = c

\* str.split(sep, 1) of a string that contains sep
SplitOnce(str, sep) ==
    LET at == CHOOSE i \in 1..Len(str) :
                  str[i] = sep /\ \A j \in 1..(i - 1) : str[j] # sep
    IN  <<SubSeq(str, 1, at - 1), SubSeq(str, at + 1, Len(str))>>

RECURSIVE LStrip(_)
LStrip(str) ==
    IF str # <<>> /\ Head(str) \in Whitespace THEN LStrip(Tail(str)) ELSE str

RECURSIVE RStrip(_)
RStrip(str) ==
    IF str # <<>> /\ str[Len(str)] \in Whitespace
    THEN RStrip(SubSeq(str, 1, Len(str) - 1))
    ELSE str

Strip(str) == RStrip(LStrip(str))

\* re.sub("_+", "_", str)
RECURSIVE CollapseUnderscores(_)
CollapseUnderscores(str) ==
    IF Len(str) <= 1 THEN str
    ELSE IF str[1] = "_" /\ str[2] = "_" THEN CollapseUnderscores(Tail(str))
    ELSE <<str[1]>> \o CollapseUnderscores(Tail(str))

(***************************************************************************)
(* The parsing loop of show()                                              *)
(***************************************************************************)
LicenseKeyMarker == <<"L", "i", "c", "e", "n", "s", "e", " ", "K", "e", "y", ":">>

\* key = key.strip().lower().replace(" ", "_"); key = re.sub("_+", "_", key)
ShowKey(key) == CollapseUnderscores(Replace(Lower(Strip(key)), " ", "_"))

\* lic[key] = value
SetItem(lic, key, value) ==
    [k \in DOMAIN lic \cup {key} |-> IF k = key THEN value ELSE lic[k]]

EmptyLicense == [k \in {} |-> <<>>]

\* while lines[i]: ...; i is the 1-based index of lines[i]
RECURSIVE ShowBlock(_, _, _)
ShowBlock(text, i, lic) ==
    IF i > Len(text) THEN [pc |-> "raised", error |-> "IndexError", lic |-> lic]
    ELSE IF text[i] = <<>> THEN [pc |-> "running", error |-> "", lic |-> lic]
    ELSE IF ~Contains(text[i], ":")
    THEN [pc |-> "raised", error |-> "ValueError", lic |-> lic]
    ELSE LET kv == SplitOnce(text[i], ":")
         IN  ShowBlock(text, i + 1, SetItem(lic, ShowKey(kv[1]), Strip(kv[2])))

\* mutant: the line after the marker is not skipped
BlockStart_NoSkip(i) == i + 1

\* the first line of a block's key: value lines, seen from its marker line
BlockStart(i) == i + 2

\* for i in range(0, len(lines)): if lines[i].endswith("License Key:"): ...
RECURSIVE ShowLoop(_, _, _)
ShowLoop(text, i, licenses) ==
    IF i > Len(text) THEN [pc |-> "returned", error |-> "", licenses |-> licenses]
    ELSE IF EndsWith(text[i], LicenseKeyMarker)
    THEN LET b == ShowBlock(text, BlockStart(i), EmptyLicense)
         IN  IF b.pc = "raised"
             THEN [pc |-> "raised", error |-> b.error, licenses |-> licenses]
             ELSE ShowLoop(text, i + 1, Append(licenses, b.lic))
    ELSE ShowLoop(text, i + 1, licenses)

ParseShow(text) == ShowLoop(text, 1, <<>>)

(***************************************************************************)
(* Texts given to the parsing loop: arbitrary sequences of lines, and      *)
(* outputs assembled from license blocks.                                  *)
(***************************************************************************)
MarkerLine == <<"1", ".", " ">> \o LicenseKeyMarker
RuleLine == <<"-", "-">>
BlankLine == <<>>

\* key and value as they stand left and right of the first colon of a line
KeyValue ==
    {[key |-> <<"A", "b">>, value |-> <<" ", "x">>],
     [key |-> <<"A", " ", " ", "b", " ">>, value |-> <<"y", ":", "z", " ">>],
     [key |-> <<"a", "b">>, value |-> <<"w">>]}

KeyValueLine(kv) == kv.key \o <<":">> \o kv.value

LinePool ==
    {BlankLine, MarkerLine, RuleLine, KeyValueLine([key |-> <<"A", "b">>, value |-> <<" ", "x">>])}

\* a license block: a line ending in "License Key:", one skipped line, its
\* key: value lines, and the blank line that ends it
Blocks ==
    [header : {MarkerLine}, skipped : {RuleLine, MarkerLine},
     kvs : SeqsUpTo(KeyValue, MaxBlockLines)]

RenderBlock(b) ==
    <<b.header, b.skipped>> \o [j \in 1..Len(b.kvs) |-> KeyValueLine(b.kvs[j])] \o <<BlankLine>>

RECURSIVE Render(_)
Render(bs) == IF bs = <<>> THEN <<>> ELSE RenderBlock(Head(bs)) \o Render(Tail(bs))

(***************************************************************************)
(* The state machine: a declaration is applied again and again, in test    *)
(* mode or not, and each delete/install/temp call may exit non-zero.       *)
(***************************************************************************)
PresentDecls ==
    [fn : {"license_present"}, name : {Sid}, filename : {Filename, NoFilename},
     remove_other_sid : BOOLEAN, remove_other_hwkey : BOOLEAN, remove_all : {FALSE}]

AbsentDecls ==
    [fn : {"license_absent"}, name : {Sid}, filename : {NoFilename},
     remove_other_sid : {FALSE}, remove_other_hwkey : {FALSE}, remove_all : BOOLEAN]

\* no function of the execution module has been called on its own
NoFacadeCall ==
    [op |-> "none", dir_library |-> <<>>, retcode |-> 0, commands |-> <<>>,
     pc |-> "idle", result |-> "none"]

NoRun ==
    [fn |-> "none", test |-> FALSE, failAt |-> 0, observed |-> <<>>, owner |-> Sidadm,
     calls |-> <<>>, ret |-> NewRet(Sid), pc |-> "none"]

Env(test, failAt) ==
    [sys |-> sysLics, owner |-> fileOwner, file |-> fileLics, tool |-> tool,
     test |-> test, failAt |-> failAt]

Apply(d, env) ==
    IF d.fn = "license_present"
    THEN LicensePresent(env, d.name, d.filename, d.remove_other_sid, d.remove_other_hwkey)
    ELSE LicenseAbsent(env, d.name, d.remove_all)

\* the delete/install/temp calls of the invocation when none of them fails
Fallible(d, test) == Apply(d, Env(test, 0)).n

Record(d, test, failAt, st) ==
    /\ sysLics' = st.sys
    /\ fileOwner' = st.owner
    /\ runs' = runs + 1
    /\ last' = [fn |-> d.fn, test |-> test, failAt |-> failAt, observed |-> sysLics,
                owner |-> fileOwner, calls |-> st.calls, ret |-> st.ret, pc |-> st.pc]
    /\ UNCHANGED <<fileLics, decl, tool, parserVars, facade>>

license_present(test) ==
    /\ decl.fn = "license_present"
    /\ runs < MaxRuns
    /\ \E failAt \in 0..Fallible(decl, test) :
           Record(decl, test, failAt, Apply(decl, Env(test, failAt)))

license_absent(test) ==
    /\ decl.fn = "license_absent"
    /\ runs < MaxRuns
    /\ \E failAt \in 0..Fallible(decl, test) :
           Record(decl, test, failAt, Apply(decl, Env(test, failAt)))

InitParserIdle ==
    /\ lines = <<>>
    /\ blocks = <<>>
    /\ parsed = [pc |-> "none", error |-> "", licenses |-> <<>>]

Init ==
    /\ sysLics \in {s \in SeqsUpTo(SysLicense, MaxLics) : DistinctKeys(s)}
    /\ decl \in PresentDecls \cup AbsentDecls
    \* the license file is read only by a declaration that names it
    /\ fileOwner \in (IF decl.filename = NoFilename THEN {Sidadm} ELSE Owners)
    /\ fileLics \in (IF decl.filename = NoFilename THEN {<<>>}
                     ELSE SeqsUpTo(FileLicense, MaxFileLics))
    /\ tool \in ToolStates
    /\ runs = 0
    /\ last = NoRun
    /\ facade = NoFacadeCall
    /\ InitParserIdle

Next ==
    \/ \E test \in BOOLEAN : license_present(test)
    \/ \E test \in BOOLEAN : license_absent(test)

Spec == Init /\ [][Next]_vars

(***************************************************************************)
(* The parsers on their own: a text is chosen and the loop is applied.     *)
(***************************************************************************)
InitEngineIdle ==
    /\ sysLics = <<>>
    /\ fileOwner = Sidadm
    /\ fileLics = <<>>
    /\ decl = [fn |-> "license_absent", name |-> Sid, filename |-> NoFilename,
               remove_other_sid |-> FALSE, remove_other_hwkey |-> FALSE,
               remove_all |-> FALSE]
    /\ tool = "ok"
    /\ runs = 0
    /\ last = NoRun
    /\ facade = NoFacadeCall

InitShow ==
    /\ InitEngineIdle
    /\ \/ /\ blocks = <<>>
          /\ lines \in SeqsUpTo(LinePool, MaxLines)
       \/ /\ blocks \in SeqsUpTo(Blocks, MaxBlocks) \ {<<>>}
          /\ lines = Render(blocks)
    /\ parsed = [pc |-> "none", error |-> "", licenses |-> <<>>]

\* lines = cmd_ret.get("stdout").split("\n"); ...; return licenses
ShowParses ==
    /\ parsed.pc = "none"
    /\ parsed' = ParseShow(lines)
    /\ UNCHANGED <<engineVars, lines, blocks>>

NextShow == ShowParses

SpecShow == InitShow /\ [][NextShow]_vars

(***************************************************************************)
(* Vocabulary of the properties                                            *)
(***************************************************************************)
Range(s) == {s[i] : i \in 1..Len(s)}

Invoked(fn) == last.fn = fn
Returned == last.pc = "returned"
AllCallsSucceeded == \A i \in 1..Len(last.calls) : last.calls[i].ok
CallsOf(ops) == SelectSeq(last.calls, LAMBDA c : c.op \in ops)
OldList == Get(last.ret.changes, "old")
NewList == Get(last.ret.changes, "new")
NoChangesRequired == <<"No changes required">>
AlreadyValid == <<"System", Sid, "already has a valid license">>

\* the observed list holds a valid license of a product that is not Maintenance
ObservedValidLicense ==
    \E lic \in Range(last.observed) :
        lic.validity = "valid" /\ lic.software_product # "Maintenance_HDB"

(***************************************************************************)
(* C5: in dry-run mode neither license_present nor license_absent invokes  *)
(* delete, install, temp or chown, and the system's licenses and the       *)
(* owner of the file are what they were before the call.                   *)
(***************************************************************************)
C5_DryRunCallsNothing ==
    (last.fn # "none" /\ last.test) =>
        /\ last.calls = <<>>
        /\ sysLics = last.observed
        /\ fileOwner = last.owner

\* a dry run that reports removals, an owner change and installations
C5_Witness ==
    /\ Invoked("license_present") /\ last.test /\ Returned
    /\ OldList # <<>>
    /\ Len(NewList) >= 2
    /\ last.owner # Sidadm

(***************************************************************************)
(* C6: in dry-run mode the result is None exactly when a description was   *)
(* accumulated and True exactly when none was; outside dry-run a call that *)
(* reaches its normal end returns True.                                    *)
(***************************************************************************)
C6_TriStateResult ==
    (last.fn # "none" /\ Returned) =>
        /\ last.test =>
              /\ last.ret.result = "None" <=> (OldList # <<>> \/ NewList # <<>>)
              /\ last.ret.result = "True" <=> (OldList = <<>> /\ NewList = <<>>)
        /\ (~last.test /\ AllCallsSucceeded) => last.ret.result = "True"

\* a dry run of license_absent with something to remove
C6_Witness ==
    /\ Invoked("license_absent") /\ last.test /\ Returned
    /\ last.ret.result = "None"
    /\ OldList # <<>>

(***************************************************************************)
(* C4: license_absent with remove_all=False issues delete calls only for   *)
(* observed licenses whose system is the SID, and every license of another *)
(* system is still installed after the call, whatever its outcome.         *)
(***************************************************************************)
C4_AbsentLeavesOtherSystems ==
    (Invoked("license_absent") /\ ~decl.remove_all) =>
        /\ \A c \in Range(last.calls) :
               /\ c.op = "delete"
               /\ \E lic \in Range(last.observed) :
                      /\ lic.system = Sid
                      /\ c.args = <<Sid, lic.hardware_key, lic.software_product>>
        /\ Len(last.calls) <= Cardinality({i \in 1..Len(last.observed) :
                                              last.observed[i].system = Sid})
        /\ \A lic \in Range(last.observed) : lic.system # Sid => lic \in Range(sysLics)

\* the system's own license was deleted beside a license of another system
C4_Witness ==
    /\ Invoked("license_absent") /\ ~decl.remove_all /\ ~last.test /\ Returned
    /\ last.calls # <<>> /\ AllCallsSucceeded
    /\ \E lic \in Range(last.observed) : lic.system # Sid
    /\ Len(sysLics) < Len(last.observed)

(***************************************************************************)
(* C7 as claimed: every returned ret, the early returns after a failed     *)
(* delete/install/temp included, with both change lists empty has the      *)
(* comment "No changes required" and the result True.                      *)
(***************************************************************************)
C7_Original ==
    (last.fn # "none" /\ Returned /\ OldList = <<>> /\ NewList = <<>>) =>
        /\ last.ret.comment = NoChangesRequired
        /\ last.ret.result = "True"

(***************************************************************************)
(* C7 amended: a returned ret with both change lists empty has the comment *)
(* "No changes required" and the result True, unless the function returned *)
(* early after a failed delete/install/temp: then the result is False and  *)
(* the comment names the failure.                                          *)
(***************************************************************************)
C7_EmptyChangesInvariant ==
    (last.fn # "none" /\ Returned /\ OldList = <<>> /\ NewList = <<>>) =>
        IF AllCallsSucceeded
        THEN /\ last.ret.comment = NoChangesRequired
             /\ last.ret.result = "True"
             /\ DOMAIN last.ret.changes = {}
        ELSE /\ last.ret.result = "False"
             /\ last.ret.comment \notin {NoChangesRequired, <<"">>}
             /\ ~last.calls[Len(last.calls)].ok

\* license_present found a valid license and nothing to remove
C7_Witness ==
    /\ Invoked("license_present") /\ decl.filename = NoFilename /\ Returned
    /\ ObservedValidLicense
    /\ OldList = <<>> /\ NewList = <<>>
    /\ last.ret.comment = NoChangesRequired

(***************************************************************************)
(* C2 as claimed: license_present without a file, the observed list        *)
(* holding a valid license of a product that is not Maintenance, issues no *)
(* delete, install or temp call and returns a comment saying that the      *)
(* system already has a valid license.                                     *)
(***************************************************************************)
C2_Original ==
    (Invoked("license_present") /\ decl.filename = NoFilename /\ Returned
        /\ ObservedValidLicense) =>
        /\ CallsOf({"delete", "install", "temp"}) = <<>>
        /\ last.ret.comment = AlreadyValid

(***************************************************************************)
(* C2 amended: license_present without a file, the observed list holding a *)
(* valid license of a product that is not Maintenance, issues no install,  *)
(* no temp and no delete of all licenses of the SID; its only delete calls *)
(* are those of the remove_other_sid and remove_other_hwkey steps, for     *)
(* observed licenses of another system or hardware key.  When no delete    *)
(* failed, the comment says that the system already has a valid license if *)
(* a removal was recorded, and "No changes required" otherwise.            *)
(***************************************************************************)
C2_ValidLicenseKept ==
    (Invoked("license_present") /\ decl.filename = NoFilename /\ ObservedValidLicense) =>
        /\ CallsOf({"install", "temp", "chown"}) = <<>>
        /\ \A c \in Range(last.calls) :
               /\ c.args # <<Sid, Wildcard, Wildcard>>
               /\ \E lic \in Range(last.observed) :
                      \/ /\ decl.remove_other_sid
                         /\ lic.system # Sid
                         /\ c.args = <<lic.system, Wildcard, Wildcard>>
                      \/ /\ decl.remove_other_hwkey
                         /\ lic.hardware_key # OwnHwKey
                         /\ c.args = <<lic.system, lic.hardware_key, Wildcard>>
        /\ (Returned /\ AllCallsSucceeded) =>
               /\ NewList = <<>>
               /\ last.ret.comment = IF OldList = <<>> THEN NoChangesRequired ELSE AlreadyValid

\* a valid license is observed beside a license of another system, which is removed
C2_Witness ==
    /\ Invoked("license_present") /\ decl.filename = NoFilename /\ Returned
    /\ ObservedValidLicense
    /\ ~last.test /\ last.calls # <<>> /\ AllCallsSucceeded
    /\ last.ret.comment = AlreadyValid

(***************************************************************************)
(* C3 as claimed: a non-dry-run license_present without a file, no         *)
(* observed license of a product that is not Maintenance being valid,      *)
(* makes exactly these calls, all of them succeeding: one delete (only if  *)
(* licenses were observed) and then one temp.                              *)
(***************************************************************************)
C3_Original ==
    (Invoked("license_present") /\ decl.filename = NoFilename /\ ~last.test
        /\ Returned /\ AllCallsSucceeded /\ ~ObservedValidLicense) =>
        /\ Len(CallsOf({"temp"})) = 1
        /\ Len(CallsOf({"delete"})) = IF last.observed # <<>> THEN 1 ELSE 0
        /\ CallsOf({"install"}) = <<>>
        /\ last.calls[Len(last.calls)].op = "temp"

(***************************************************************************)
(* C3 amended: a non-dry-run license_present without a file, no observed   *)
(* license of a product that is not Maintenance being valid, in which      *)
(* every tool call succeeds, first makes the delete calls of the           *)
(* remove_other_sid and remove_other_hwkey steps and then exactly one      *)
(* delete of all licenses of the SID (if and only if the observed list was *)
(* not empty) followed by exactly one temp call, the last call; it makes   *)
(* no install call.  If a delete fails, no temp call is made.              *)
(***************************************************************************)
IsDeleteAll(c) == c.op = "delete" /\ c.args = <<Sid, Wildcard, Wildcard>>
IsStepDelete(c) == c.op = "delete" /\ c.args # <<Sid, Wildcard, Wildcard>>

C3_DeleteThenTemp ==
    (Invoked("license_present") /\ decl.filename = NoFilename /\ ~last.test
        /\ tool = "ok" /\ ~ObservedValidLicense) =>
        LET n == Len(last.calls)
            k == IF last.observed # <<>> THEN 1 ELSE 0
        IN  /\ CallsOf({"install", "chown"}) = <<>>
            /\ AllCallsSucceeded =>
                  /\ n >= 1 + k
                  /\ last.calls[n] = [op |-> "temp", args |-> <<Sid, InfoProducts>>, ok |-> TRUE]
                  /\ k = 1 => IsDeleteAll(last.calls[n - 1])
                  /\ \A i \in 1..(n - 1 - k) : IsStepDelete(last.calls[i])
                  /\ (~decl.remove_other_sid /\ ~decl.remove_other_hwkey) => n = 1 + k
            /\ ~AllCallsSucceeded =>
                  /\ \A i \in 1..(n - 1) : last.calls[i].ok /\ last.calls[i].op = "delete"
                  /\ last.ret.result = "False"

\* licenses of the SID and of another system are observed, none valid for the SID's
\* purposes: step deletes, the delete of all licenses and the temp call follow
C3_Witness ==
    /\ Invoked("license_present") /\ decl.filename = NoFilename /\ ~last.test
    /\ tool = "ok" /\ ~ObservedValidLicense
    /\ Returned /\ AllCallsSucceeded
    /\ Len(last.calls) >= 3
    /\ last.calls[Len(last.calls)].op = "temp"

(***************************************************************************)
(* C1: license_present with a file is idempotent: when it has run outside  *)
(* test mode with every tool call succeeding and runs again at once, with  *)
(* the same file and arguments and again every tool call succeeding, the   *)
(* second run issues no delete, install or chown call and returns empty    *)
(* changes with the comment "No changes required".  Stated for the files   *)
(* that hold at least one license; it fails for the empty file as well.    *)
(***************************************************************************)
SuccessfulRun(l, fn) ==
    /\ l.fn = fn /\ ~l.test /\ l.pc = "returned"
    /\ \A i \in 1..Len(l.calls) : l.calls[i].ok

NoOp(l) ==
    /\ l.calls = <<>>
    /\ Get(l.ret.changes, "old") = <<>> /\ Get(l.ret.changes, "new") = <<>>
    /\ l.ret.comment = NoChangesRequired

C1_PresentIdempotent ==
    [][(/\ decl.filename # NoFilename
        /\ fileLics # <<>>
        /\ tool = "ok"
        /\ SuccessfulRun(last, "license_present")
        /\ runs' = runs + 1
        /\ SuccessfulRun(last', "license_present")) => NoOp(last')]_vars

(***************************************************************************)
(* C8: license_absent is idempotent: after one invocation outside test     *)
(* mode whose delete calls all succeeded, a second invocation with the     *)
(* same arguments issues no delete call and returns empty changes with the *)
(* comment "No changes required".                                          *)
(***************************************************************************)
C8_AbsentIdempotent ==
    [][(/\ tool = "ok"
        /\ SuccessfulRun(last, "license_absent")
        /\ runs' = runs + 1
        /\ SuccessfulRun(last', "license_absent")) => NoOp(last')]_vars

(***************************************************************************)
(* C9: the parsing loop of show never crashes: for every sequence of       *)
(* lines it terminates and returns a list of records.                      *)
(***************************************************************************)
C9_ShowNeverCrashes == parsed.pc # "none" => parsed.pc = "returned"

(***************************************************************************)
(* C10 as claimed: for an output made of N license blocks the loop returns *)
(* exactly N records, in document order, and record k holds every key of   *)
(* block k, lower-cased and with spaces replaced by underscores, with its  *)
(* trimmed value.                                                          *)
(***************************************************************************)
ClaimedKey(key) == Replace(Lower(key), " ", "_")

C10_Original ==
    (blocks # <<>> /\ parsed.pc # "none") =>
        /\ parsed.pc = "returned"
        /\ Len(parsed.licenses) = Len(blocks)
        /\ \A k \in 1..Len(blocks) : \A j \in 1..Len(blocks[k].kvs) :
               LET kv == blocks[k].kvs[j]
               IN  /\ ClaimedKey(kv.key) \in DOMAIN parsed.licenses[k]
                   /\ parsed.licenses[k][ClaimedKey(kv.key)] = Strip(kv.value)

(***************************************************************************)
(* C10 amended: for an output made of N license blocks in which no line    *)
(* but the first of each block ends in "License Key:", the loop returns    *)
(* exactly N records, in document order, and record k holds exactly the    *)
(* keys of block k, each trimmed, lower-cased, with spaces replaced by     *)
(* underscores and runs of underscores collapsed into one, with the        *)
(* trimmed value of the last line of the block that gives that key.        *)
(***************************************************************************)
NormalizedKey(key) == CollapseUnderscores(Replace(Lower(Strip(key)), " ", "_"))

OneMarkerPerBlock(bs) ==
    \A k \in 1..Len(bs) :
        /\ ~EndsWith(bs[k].skipped, LicenseKeyMarker)
        /\ \A j \in 1..Len(bs[k].kvs) :
               ~EndsWith(KeyValueLine(bs[k].kvs[j]), LicenseKeyMarker)

\* the last line of the block that gives the key of line j
LastGiving(kvs, j) ==
    CHOOSE m \in j..Len(kvs) :
        /\ NormalizedKey(kvs[m].key) = NormalizedKey(kvs[j].key)
        /\ \A n \in (m + 1)..Len(kvs) : NormalizedKey(kvs[n].key) # NormalizedKey(kvs[j].key)

C10_BlocksToRecords ==
    (blocks # <<>> /\ parsed.pc # "none" /\ OneMarkerPerBlock(blocks)) =>
        /\ parsed.pc = "returned"
        /\ Len(parsed.licenses) = Len(blocks)
        /\ \A k \in 1..Len(blocks) :
               LET kvs == blocks[k].kvs
               IN  /\ DOMAIN parsed.licenses[k] =
                          {NormalizedKey(kvs[j].key) : j \in 1..Len(kvs)}
                   /\ \A j \in 1..Len(kvs) :
                          parsed.licenses[k][NormalizedKey(kvs[j].key)]
                              = Strip(kvs[LastGiving(kvs, j)].value)

\* two different blocks, one of them with a padded key and a key given twice
C10_Witness ==
    /\ Len(blocks) = 2 /\ blocks[1] # blocks[2] /\ OneMarkerPerBlock(blocks)
    /\ parsed.pc = "returned"
    /\ Len(parsed.licenses) = 2
    /\ Len(blocks[1].kvs) = 2 /\ Len(blocks[2].kvs) = 2
    /\ DOMAIN parsed.licenses[1] = {<<"a", "b">>, <<"a", "_", "b">>}
    /\ DOMAIN parsed.licenses[2] = {<<"a", "b">>}
    /\ parsed.licenses[2][<<"a", "b">>] = <<"w">>

(***************************************************************************)
(* read_lic_file(): the lines of the license file, each with its line      *)
(* end as readlines() yields them, scanned for "Begin SAP License".        *)
(***************************************************************************)
MaxFileLines == 4    \* lines of a license file

\* sub in str
ContainsSeq(str, sub) ==
    \E i \in 1..(Len(str) - Len(sub) + 1) : SubSeq(str, i, i + Len(sub) - 1) = sub

BeginMarker == <<"B", "e", "g", "i", "n", " ", "S", "A", "P", " ", "L", "i", "c", "e", "n", "s", "e">>

\* the if/elif chain of read_lic_file: the attribute a key is stored under
RenameTable ==
    <<<<<<"S", "A", "P", "S", "Y", "S", "T", "E", "M">>, "system">>,
      <<<<"H", "A", "R", "D", "W", "A", "R", "E", "-", "K", "E", "Y">>, "hardware_key">>,
      <<<<"I", "N", "S", "T", "N", "O">>, "installation_number">>,
      <<<<"B", "E", "G", "I", "N">>, "begin_of_validity">>,
      <<<<"E", "X", "P", "I", "R", "A", "T", "I", "O", "N">>, "end_of_validity">>,
      <<<<"S", "W", "P", "R", "O", "D", "U", "C", "T", "N", "A", "M", "E">>, "software_product">>,
      <<<<"S", "W", "P", "R", "O", "D", "U", "C", "T", "L", "I", "M", "I", "T">>, "software_product_limit">>,
      <<<<"S", "Y", "S", "T", "E", "M", "-", "N", "R">>, "system_number">>>>

Dropped == ""    \* no branch of the chain takes the key

\* mutant: LKEY is kept
Rename_KeepsLkey(key) ==
    IF key = <<"L", "K", "E", "Y">> THEN "lkey"
    ELSE IF \E r \in 1..Len(RenameTable) : RenameTable[r][1] = key
    THEN RenameTable[CHOOSE r \in 1..Len(RenameTable) : RenameTable[r][1] = key][2]
    ELSE Dropped

Rename(key) ==
    IF \E r \in 1..Len(RenameTable) : RenameTable[r][1] = key
    THEN RenameTable[CHOOSE r \in 1..Len(RenameTable) : RenameTable[r][1] = key][2]
    ELSE Dropped

\* while i < len(lines) and "=" in lines[i] and "Begin SAP License" not in lines[i]
RECURSIVE LicFileBlock(_, _, _)
LicFileBlock(text, i, lic) ==
    IF i > Len(text) \/ ~Contains(text[i], "=") \/ ContainsSeq(text[i], BeginMarker)
    THEN lic
    ELSE LET kv    == SplitOnce(text[i], "=")
             value == Strip(kv[2])
             attr  == Rename(kv[1])
         IN  LicFileBlock(text, i + 1,
                          IF attr = Dropped THEN lic ELSE SetItem(lic, attr, value))

\* for i in range(0, len(lines)): if "Begin SAP License" in lines[i]: ...
RECURSIVE LicFileLoop(_, _, _)
LicFileLoop(text, i, data) ==
    IF i > Len(text) THEN [pc |-> "returned", error |-> "", licenses |-> data]
    ELSE IF ContainsSeq(text[i], BeginMarker)
    THEN LicFileLoop(text, i + 1, Append(data, LicFileBlock(text, i + 1, EmptyLicense)))
    ELSE LicFileLoop(text, i + 1, data)

ParseLicFile(text) == LicFileLoop(text, 1, <<>>)

\* lines of license files: markers, attributes of the table, LKEY, a key that
\* is no attribute, and lines without "="
FileLinePool ==
    {<<"-", " ", "B", "e", "g", "i", "n", " ", "S", "A", "P", " ", "L", "i", "c", "e", "n", "s", "e", " ", "-", "\n">>,
     <<"B", "e", "g", "i", "n", " ", "S", "A", "P", " ", "L", "i", "c", "e", "n", "s", "e", "=", "\n">>,
     <<"S", "A", "P", "S", "Y", "S", "T", "E", "M", "=", "S", "4", "H", "\n">>,
     <<"H", "A", "R", "D", "W", "A", "R", "E", "-", "K", "E", "Y", "=", " ", "Z", "0", "1", " ", "\n">>,
     <<"L", "K", "E", "Y", "=", "A", "=", "B", "\n">>,
     <<" ", "S", "A", "P", "S", "Y", "S", "T", "E", "M", "=", "M", "7", "0", "\n">>,
     <<"\n">>,
     <<"S", "A", "P", "S", "Y", "S", "T", "E", "M", "=", "M", "7", "0">>}

InitLicFile ==
    /\ InitEngineIdle
    /\ blocks = <<>>
    /\ lines \in SeqsUpTo(FileLinePool, MaxFileLines)
    /\ parsed = [pc |-> "none", error |-> "", licenses |-> <<>>]

\* lines = fil.readlines(); ...; return data
LicFileParses ==
    /\ parsed.pc = "none"
    /\ parsed' = ParseLicFile(lines)
    /\ UNCHANGED <<engineVars, lines, blocks>>

NextLicFile == LicFileParses

SpecLicFile == InitLicFile /\ [][NextLicFile]_vars

(***************************************************************************)
(* C11: read_lic_file returns exactly one record per line containing       *)
(* "Begin SAP License", in file order; each record holds only attributes   *)
(* of the rename table, taken from the KEY=value lines between its marker  *)
(* and the first line without "=", the next marker or the end of the       *)
(* file; every other key, LKEY included, is dropped.                       *)
(***************************************************************************)
IsMarkerLine(l) == ContainsSeq(l, BeginMarker)
IsKeyValueLine(l) == Contains(l, "=") /\ ~IsMarkerLine(l)

MarkerIndexes == {i \in 1..Len(lines) : IsMarkerLine(lines[i])}

\* the index of the k-th marker line
MarkerAt(k) ==
    CHOOSE i \in MarkerIndexes : Cardinality({j \in MarkerIndexes : j <= i}) = k

\* the KEY=value lines that belong to the marker in line m
LinesOf(m) ==
    {i \in (m + 1)..Len(lines) : \A j \in (m + 1)..i : IsKeyValueLine(lines[j])}

RenameTargets == {RenameTable[r][2] : r \in 1..Len(RenameTable)}

C11_LicFileRecords ==
    parsed.pc # "none" =>
        /\ parsed.pc = "returned"
        /\ Len(parsed.licenses) = Cardinality(MarkerIndexes)
        /\ \A k \in 1..Len(parsed.licenses) :
               LET rec  == parsed.licenses[k]
                   mine == LinesOf(MarkerAt(k))
               IN  /\ DOMAIN rec \subseteq RenameTargets
                   /\ \A a \in DOMAIN rec :
                          \E i \in mine :
                              /\ \E r \in 1..Len(RenameTable) :
                                     /\ RenameTable[r][2] = a
                                     /\ SplitOnce(lines[i], "=")[1] = RenameTable[r][1]
                              /\ rec[a] = Strip(SplitOnce(lines[i], "=")[2])
                   /\ \A i \in mine :
                          \A r \in 1..Len(RenameTable) :
                              SplitOnce(lines[i], "=")[1] = RenameTable[r][1]
                                  => RenameTable[r][2] \in DOMAIN rec

\* a file of two licenses, the first with SAPSYSTEM and LKEY lines
C11_Witness ==
    /\ parsed.pc = "returned"
    /\ Len(lines) = 4
    /\ MarkerIndexes = {1, 4}
    /\ lines[3] = <<"L", "K", "E", "Y", "=", "A", "=", "B", "\n">>
    /\ Len(parsed.licenses) = 2
    /\ DOMAIN parsed.licenses[1] = {"system"}
    /\ parsed.licenses[1]["system"] = <<"S", "4", "H">>
    /\ parsed.licenses[2] = EmptyLicense

(***************************************************************************)
(* The parsing loop of info(): every line of the stdout of saplikey -get   *)
(* that holds a colon gives one entry of the mapping.                      *)
(***************************************************************************)
MaxInfoLines == 3    \* lines of a stdout given to the parsing loop of info

\* str.replace(c, "")
Remove(str, c) == SelectSeq(str, LAMBDA x : x # c)

\* key = key.lower().replace(".", "").strip().replace(" ", "_")
\* key = re.sub("_+", "_", key)
InfoKey(key) ==
    CollapseUnderscores(Replace(Strip(Remove(Lower(key), ".")), " ", "_"))

\* str.split(" ")[0]
RECURSIVE FirstWord(_)
FirstWord(str) ==
    IF str = <<>> \/ Head(str) = " " THEN <<>>
    ELSE <<Head(str)>> \o FirstWord(Tail(str))

\* value = value.strip().split(" ")[0]
InfoValue(value) == FirstWord(Strip(value))

\* for i in range(0, len(lines)): if ":" in lines[i]: ...
RECURSIVE InfoLoop(_, _, _)
InfoLoop(text, i, ifo) ==
    IF i > Len(text) THEN [pc |-> "returned", error |-> "", info |-> ifo]
    ELSE IF Contains(text[i], ":")
    THEN LET kv == SplitOnce(text[i], ":")
         IN  InfoLoop(text, i + 1, SetItem(ifo, InfoKey(kv[1]), InfoValue(kv[2])))
    ELSE InfoLoop(text, i + 1, ifo)

ParseInfo(text) == InfoLoop(text, 1, EmptyLicense)

\* lines of the stdout: a regular entry, an entry with dots and repeated
\* spaces, a line without colon, and lines whose text before the colon is
\* empty, holds a tab or a hyphen, or has an underscore next to spaces
InfoLinePool ==
    {<<"H", "a", "r", "d", "w", "a", "r", "e", " ", "K", "e", "y", ":", " ", "Z", "0", "1", " ", "x">>,
     <<"S", "w", ".", " ", " ", "P", "r", "o", "d", "u", "c", "t", "s", " ", ":", " ", "N", "W">>,
     <<"n", "o", " ", "c", "o", "l", "o", "n">>,
     <<":", " ", "v">>,
     <<"a", "-", "b", ":", " ", "1">>,
     <<"a", "\t", "b", ":", "2">>,
     <<" ", "_", " ", "a", "_", " ", ":", " ", "3">>}

InitInfo ==
    /\ InitEngineIdle
    /\ blocks = <<>>
    /\ lines \in SeqsUpTo(InfoLinePool, MaxInfoLines)
    /\ parsed = [pc |-> "none", error |-> "", info |-> EmptyLicense]

\* lines = cmd_ret.get("stdout").split("\n"); ...; return ifo
InfoParses ==
    /\ parsed.pc = "none"
    /\ parsed' = ParseInfo(lines)
    /\ UNCHANGED <<engineVars, lines, blocks>>

NextInfo == InfoParses

SpecInfo == InitInfo /\ [][NextInfo]_vars

(***************************************************************************)
(* C12: every key of the mapping the parsing loop of info produces is a    *)
(* non-empty string over lower-case letters, digits and underscore, with   *)
(* no two consecutive underscores.                                         *)
(***************************************************************************)
Digits == {"0", "1", "2", "3", "4", "5", "6", "7", "8", "9"}
KeyChars == Range(LowerChars) \cup Digits \cup {"_"}

WellFormedKey(key) ==
    /\ key # <<>>
    /\ \A i \in 1..Len(key) : key[i] \in KeyChars
    /\ \A i \in 1..(Len(key) - 1) : ~(key[i] = "_" /\ key[i + 1] = "_")

C12_InfoKeysWellFormed ==
    parsed.pc = "returned" => \A key \in DOMAIN parsed.info : WellFormedKey(key)

(***************************************************************************)
(* C13: in license_present outside test mode with remove_other_sid, the    *)
(* delete issued for an observed license of another system removes only    *)
(* that license: an observed license of another system that was not        *)
(* deleted by its own delete call is still installed after the call.       *)
(***************************************************************************)
\* the observed licenses of other systems, in the order the step visits them;
\* the k-th delete call of the invocation is the one issued for the k-th
ForeignObserved == SelectSeq(last.observed, LAMBDA lic : lic.system # Sid)

DeletedByOwnStep(k) == k <= Len(last.calls) /\ last.calls[k].ok

C13_ForeignDeleteRemovesOnlyItsRecord ==
    (Invoked("license_present") /\ ~last.test /\ decl.remove_other_sid /\ tool = "ok") =>
        \A k \in 1..Len(ForeignObserved) :
            ~DeletedByOwnStep(k) => ForeignObserved[k] \in Range(sysLics)

(***************************************************************************)
(* C14: in license_present with remove_other_sid and remove_other_hwkey,   *)
(* the other-hardware-key step considers only the licenses that remain     *)
(* after the other-system step: no observed license is the target of a     *)
(* delete call, or of a removal description, in both steps.                *)
(***************************************************************************)
Occurrences(s, x) == Cardinality({i \in 1..Len(s) : s[i] = x})

RemovalDescription(lic) ==
    IF last.test THEN MsgWould(lic, "would be removed") ELSE MsgLicense(lic)

\* a delete call of the other-system step precedes one of the other-hardware-key
\* step issued for the same license
DeletedInBothSteps(lic) ==
    \E i, j \in 1..Len(last.calls) :
        /\ i < j
        /\ last.calls[i].op = "delete" /\ last.calls[i].args = OtherSidDeleteArgs(lic, Sid)
        /\ last.calls[j].op = "delete" /\ last.calls[j].args = OtherHwkeyDeleteArgs(lic, Sid)

C14_StepsTargetDisjointRecords ==
    (/\ Invoked("license_present") /\ tool = "ok"
     /\ decl.remove_other_sid /\ decl.remove_other_hwkey) =>
        \A lic \in Range(last.observed) :
            lic.system # Sid =>
                /\ ~DeletedInBothSteps(lic)
                \* without a license file the two steps alone describe removals
                /\ decl.filename = NoFilename =>
                       Occurrences(OldList, RemovalDescription(lic)) <= 1

(***************************************************************************)
(* C15: in license_present with a license file, the wildcard delete and    *)
(* the install are skipped if and only if every license of the file        *)
(* equals some observed license without its last_successful_check,         *)
(* validity and type_of_license_key; this holds for every file, one that   *)
(* yields no license included.                                             *)
(***************************************************************************)
EveryFileLicenseObserved ==
    \A j \in 1..Len(fileLics) :
        \E lic \in Range(last.observed) : fileLics[j] = StripSystemOnly(lic)

IsReplaceCall(c) == c.op = "install" \/ (c.op = "delete" /\ c.args = AllDeleteArgs(Sid))

\* the delete calls of the two removal steps all succeeded, so that the
\* comparison with the file was reached
RemovalStepsSucceeded == \A c \in Range(last.calls) : IsReplaceCall(c) \/ c.ok

C15_SkipIffAllInstalled ==
    (/\ Invoked("license_present") /\ decl.filename # NoFilename
     /\ tool = "ok" /\ ~last.test /\ RemovalStepsSucceeded) =>
        ((\A c \in Range(last.calls) : ~IsReplaceCall(c)) <=> EveryFileLicenseObserved)

(***************************************************************************)
(* C16: in license_present outside test mode with a license file whose     *)
(* licenses are not all installed, the calls are: one wildcard delete for  *)
(* the SID, then the chown of the file if and only if its owner is not     *)
(* <sid>adm, then one install; after a failed delete neither chown nor     *)
(* install is called, and they are the last calls of the invocation.       *)
(***************************************************************************)
ReplaceCalls == SelectSeq(last.calls, LAMBDA c : IsReplaceCall(c) \/ c.op = "chown")

OpsOf(cs) == [i \in 1..Len(cs) |-> cs[i].op]

C16_DeleteOwnerInstallOrder ==
    (/\ Invoked("license_present") /\ decl.filename # NoFilename
     /\ tool = "ok" /\ ~last.test /\ RemovalStepsSucceeded
     /\ ~EveryFileLicenseObserved) =>
        /\ ReplaceCalls # <<>>
        /\ ReplaceCalls = SubSeq(last.calls, Len(last.calls) - Len(ReplaceCalls) + 1,
                                 Len(last.calls))
        /\ ReplaceCalls[1].op = "delete" /\ ReplaceCalls[1].args = AllDeleteArgs(Sid)
        /\ IF ~ReplaceCalls[1].ok THEN Len(ReplaceCalls) = 1
           ELSE OpsOf(ReplaceCalls) =
                    (IF last.owner # Sidadm THEN <<"delete", "chown", "install">>
                     ELSE <<"delete", "install">>)

\* a removal step's delete, then delete, chown and install
C16_Witness ==
    /\ Invoked("license_present") /\ ~last.test /\ Returned /\ tool = "ok"
    /\ ~EveryFileLicenseObserved /\ fileLics # <<>>
    /\ OpsOf(last.calls) = <<"delete", "delete", "chown", "install">>
    /\ AllCallsSucceeded

(***************************************************************************)
(* C17: in license_absent outside test mode, the delete call issued for a  *)
(* matching observed license is scoped by that license's own system, its   *)
(* hardware key and its software product, so that with remove_all and all  *)
(* deletes succeeding no observed license is installed after the call.     *)
(***************************************************************************)
MatchingObserved ==
    SelectSeq(last.observed, LAMBDA lic : decl.remove_all \/ lic.system = Sid)

C17_AbsentDeleteScopedByRecord ==
    (Invoked("license_absent") /\ ~last.test /\ tool = "ok") =>
        /\ \A k \in 1..Len(last.calls) :
               /\ last.calls[k].op = "delete"
               /\ last.calls[k].args = <<MatchingObserved[k].system,
                                         MatchingObserved[k].hardware_key,
                                         MatchingObserved[k].software_product>>
        /\ (decl.remove_all /\ Returned /\ AllCallsSucceeded) => sysLics = <<>>

(***************************************************************************)
(* C18: in license_present and license_absent the deletions are issued in  *)
(* the order of the observed list, and the first delete, install or temp   *)
(* call that fails ends the invocation: it is the last call, the result is *)
(* False and the comment is not empty.                                     *)
(***************************************************************************)
OtherHwkeyObserved ==
    SelectSeq(last.observed, LAMBDA lic : lic.hardware_key # OwnHwKey)

\* the arguments of the per-license delete calls, in the order of the observed list
PerLicenseDeletes ==
    IF last.fn = "license_absent"
    THEN [k \in 1..Len(MatchingObserved) |-> AbsentDeleteArgs(MatchingObserved[k], Sid)]
    ELSE (IF decl.remove_other_sid
          THEN [k \in 1..Len(ForeignObserved) |-> OtherSidDeleteArgs(ForeignObserved[k], Sid)]
          ELSE <<>>)
         \o (IF decl.remove_other_hwkey
             THEN [k \in 1..Len(OtherHwkeyObserved) |->
                      OtherHwkeyDeleteArgs(OtherHwkeyObserved[k], Sid)]
             ELSE <<>>)

Min(a, b) == IF a < b THEN a ELSE b

C18_FirstFailureEnds ==
    (last.fn # "none" /\ ~last.test /\ tool = "ok") =>
        /\ \A k \in 1..Min(Len(last.calls), Len(PerLicenseDeletes)) :
               last.calls[k].op = "delete" /\ last.calls[k].args = PerLicenseDeletes[k]
        /\ \A k \in 1..Len(last.calls) :
               ~last.calls[k].ok =>
                   /\ k = Len(last.calls)
                   /\ Returned
                   /\ last.ret.result = "False"
                   /\ last.ret.comment # <<"">> /\ last.ret.comment # <<>>

\* two per-license deletes in the order of the observed list, the second failing
C18_Witness ==
    /\ last.fn # "none" /\ ~last.test /\ tool = "ok"
    /\ Len(last.observed) = 2
    /\ Len(PerLicenseDeletes) = 2 /\ PerLicenseDeletes[1] # PerLicenseDeletes[2]
    /\ Len(last.calls) = 2
    /\ last.calls[1].ok /\ ~last.calls[2].ok
    /\ last.ret.result = "False"

(***************************************************************************)
(* C19: when show or info reports failure, license_present and             *)
(* license_absent, in test mode or not, return a result with a comment     *)
(* (result False outside test mode, never False in test mode) and issue    *)
(* no delete, install or temp call; no exception leaves the function.      *)
(***************************************************************************)
C19_ToolFailureIsReported ==
    (last.fn # "none" /\ tool # "ok") =>
        /\ Returned
        /\ CallsOf({"delete", "install", "temp"}) = <<>>
        /\ last.ret.comment # <<"">>
        /\ ~last.test => last.ret.result = "False"
        /\ last.test => last.ret.result # "False"

(***************************************************************************)
(* The functions of the execution module around the tool: each resolves    *)
(* the path of saplikey as <sid>adm, runs one command and turns its exit   *)
(* code into its return value.                                             *)
(***************************************************************************)
MaxStdoutLines == 1    \* lines of the stdout of the command

FacadeOps == {"info", "show", "install", "delete", "temp"}

\* what `echo $DIR_LIBRARY` prints for <sid>adm: nothing, a value without
\* "/", the directory of the kernel
DirLibraries == {<<>>, <<"l", "i", "b">>, <<"/", "e", "x", "e">>}

ExitCodes == {0, 1, 2}

Profile == "pf=/sapmnt/S4H/profile/DEFAULT.PFL"

\* mutant: a value without "/" is taken as a directory
GetSaplikeyPath_AnyValue(dir_library) ==
    IF dir_library = <<>>
    THEN [ok |-> FALSE, path |-> <<>>]
    ELSE [ok |-> TRUE, path |-> dir_library \o <<"/", "s", "a", "p", "l", "i", "k", "e", "y">>]

\* _get_saplikey_path: raise Exception(...) or return f"{dir_library}/saplikey"
GetSaplikeyPath(dir_library) ==
    IF dir_library = <<>> \/ ~Contains(dir_library, "/")
    THEN [ok |-> FALSE, path |-> <<>>]
    ELSE [ok |-> TRUE, path |-> dir_library \o <<"/", "s", "a", "p", "l", "i", "k", "e", "y">>]

\* __salt__["cmd.run_all"](cmd, runas=runas, timeout=30)
RunAll(f, cmd) ==
    [f EXCEPT !.commands = Append(@, [cmd |-> cmd, runas |-> Sidadm, timeout |-> 30])]

\* the common course of the five functions: the path, the command, and for
\* a non-zero exit code `return False`; value is what is returned otherwise
Facade(f, arguments, value) ==
    LET exec == GetSaplikeyPath(f.dir_library)
    IN  IF ~exec.ok THEN [f EXCEPT !.pc = "raised"]
        ELSE LET ran == RunAll(f, <<exec.path, Profile>> \o arguments)
             IN  IF f.retcode # 0
                 THEN [ran EXCEPT !.pc = "returned", !.result = "False"]
                 ELSE [ran EXCEPT !.pc = value.pc, !.result = value.result]

ReturnsTrue == [pc |-> "returned", result |-> "True"]

\* the value of a parsing loop
Parsed(p) == [pc |-> p.pc, result |-> IF p.pc = "returned" THEN "parsed" ELSE "none"]

FacadeInfo ==
    /\ facade.pc = "called" /\ facade.op = "info"
    /\ facade' = Facade(facade, <<"-get">>, Parsed(ParseInfo(lines)))
    /\ parsed' = (IF facade'.result = "parsed" THEN ParseInfo(lines) ELSE parsed)
    /\ UNCHANGED <<sysLics, fileOwner, fileLics, decl, tool, runs, last, lines, blocks>>

FacadeShow ==
    /\ facade.pc = "called" /\ facade.op = "show"
    /\ facade' = Facade(facade, <<"-show">>, Parsed(ParseShow(lines)))
    /\ parsed' = (IF facade'.result = "parsed" THEN ParseShow(lines) ELSE parsed)
    /\ UNCHANGED <<sysLics, fileOwner, fileLics, decl, tool, runs, last, lines, blocks>>

FacadeInstall ==
    /\ facade.pc = "called" /\ facade.op = "install"
    /\ facade' = Facade(facade, <<"-install", Filename>>, ReturnsTrue)
    /\ UNCHANGED <<sysLics, fileOwner, fileLics, decl, tool, runs, last, parserVars>>

FacadeDelete ==
    /\ facade.pc = "called" /\ facade.op = "delete"
    /\ \E name \in Systems, hwkey \in {Wildcard, OtherHwKey} :
           facade' = Facade(facade, <<"-delete", name, hwkey, Wildcard>>, ReturnsTrue)
    /\ UNCHANGED <<sysLics, fileOwner, fileLics, decl, tool, runs, last, parserVars>>

FacadeTemp ==
    /\ facade.pc = "called" /\ facade.op = "temp"
    /\ facade' = Facade(facade, <<"-temp", InfoProducts>>, ReturnsTrue)
    /\ UNCHANGED <<sysLics, fileOwner, fileLics, decl, tool, runs, last, parserVars>>

StdoutPool == {BlankLine, MarkerLine, <<"H", "a", "r", "d", "w", "a", "r", "e", " ", "K", "e", "y", ":", " ", "Z", "0", "1", " ", "x">>}

InitFacade ==
    /\ sysLics = <<>>
    /\ fileOwner = Sidadm
    /\ fileLics = <<>>
    /\ decl = [fn |-> "license_absent", name |-> Sid, filename |-> NoFilename,
               remove_other_sid |-> FALSE, remove_other_hwkey |-> FALSE,
               remove_all |-> FALSE]
    /\ tool = "ok"
    /\ runs = 0
    /\ last = NoRun
    /\ blocks = <<>>
    /\ lines \in SeqsUpTo(StdoutPool, MaxStdoutLines)
    /\ parsed = [pc |-> "none", error |-> "", licenses |-> <<>>]
    /\ facade \in [op : FacadeOps, dir_library : DirLibraries, retcode : ExitCodes,
                   commands : {<<>>}, pc : {"called"}, result : {"none"}]

NextFacade ==
    \/ FacadeInfo
    \/ FacadeShow
    \/ FacadeInstall
    \/ FacadeDelete
    \/ FacadeTemp

SpecFacade == InitFacade /\ [][NextFacade]_vars

(***************************************************************************)
(* C20: info, show, install, delete and temp first resolve the path of     *)
(* the tool and raise without running a command when the lookup yields an  *)
(* empty value or one without "/"; otherwise they run exactly one command  *)
(* with timeout 30 and return False for a non-zero exit code, and install, *)
(* delete and temp return True for exit code zero.                         *)
(***************************************************************************)
C20_FacadeContract ==
    facade.pc \notin {"idle", "called"} =>
        IF facade.dir_library = <<>> \/ ~Contains(facade.dir_library, "/")
        THEN facade.pc = "raised" /\ facade.commands = <<>>
        ELSE /\ Len(facade.commands) = 1
             /\ facade.commands[1].timeout = 30
             /\ facade.retcode # 0 => (facade.pc = "returned" /\ facade.result = "False")
             /\ (facade.retcode = 0 /\ facade.op \in {"install", "delete", "temp"}) =>
                    (facade.pc = "returned" /\ facade.result = "True")

\* a delete whose command exits non-zero
C20_Witness ==
    /\ facade.op = "delete" /\ facade.pc = "returned"
    /\ facade.retcode # 0 /\ facade.result = "False"
    /\ Len(facade.commands) = 1
    /\ Contains(facade.dir_library, "/")

(***************************************************************************)
(* C21: whenever license_present outside test mode with a license file     *)
(* returns result True, every license of the file is installed in the      *)
(* system at the moment of return.                                         *)
(***************************************************************************)
InstalledNow(flic) == \E lic \in Range(sysLics) : StripSystemOnly(lic) = flic

C21_SuccessMeansInstalled ==
    (/\ Invoked("license_present") /\ decl.filename # NoFilename
     /\ tool = "ok" /\ ~last.test
     /\ Returned /\ last.ret.result = "True") =>
        \A j \in 1..Len(fileLics) : InstalledNow(fileLics[j])

(***************************************************************************)
(* C22: whenever license_present outside test mode without a license file  *)
(* returns result True, the system holds at the moment of return a valid   *)
(* license of a product that is not Maintenance, or a temp call was issued *)
(* and succeeded in the invocation.                                        *)
(***************************************************************************)
HoldsValidLicense ==
    \E lic \in Range(sysLics) :
        lic.validity = "valid" /\ lic.software_product \notin MaintenanceProducts

TempSucceeded == \E c \in Range(last.calls) : c.op = "temp" /\ c.ok

C22_SuccessMeansLicensed ==
    (/\ Invoked("license_present") /\ decl.filename = NoFilename
     /\ tool = "ok" /\ ~last.test
     /\ Returned /\ last.ret.result = "True") =>
        (HoldsValidLicense \/ TempSucceeded)

(***************************************************************************)
(* C23: outside test mode the old change list of license_present and       *)
(* license_absent is accurate: every license it names was installed        *)
(* before the call and was removed by a delete call of the invocation,     *)
(* and no license is named more than once; a license of another system     *)
(* that the wildcard delete for the SID left installed is not named.       *)
(***************************************************************************)
NamedInOld(lic) == \E i \in 1..Len(OldList) : OldList[i] = MsgLicense(lic)

\* a successful delete call of the invocation had the license in its scope
RemovedByCall(lic) ==
    \E c \in Range(last.calls) :
        /\ c.op = "delete" /\ c.ok
        /\ InDeleteScope(lic, c.args[1], c.args[2], c.args[3])

C23_OldListAccurate ==
    (last.fn # "none" /\ ~last.test /\ tool = "ok") =>
        \A lic \in Range(last.observed) :
            /\ NamedInOld(lic) => RemovedByCall(lic)
            /\ Occurrences(OldList, MsgLicense(lic)) <= 1

====
